---- MODULE Spec2Model ----
(***************************************************************************)
(* A model of go-sdbm: the page layout (pair.go), the hash, and the DBM    *)
(* handle with its page file and directory file.                           *)
(*                                                                         *)
(* A page buffer ([PBLKSIZ]byte) is a function from the offsets of its     *)
(* non-zero bytes to those bytes; every other offset of 0..PBLKSIZ-1 holds *)
(* 0.  A file is sparse in the same way: its length in blocks and the      *)
(* blocks that are not all zero.  A directory block is the set of its bit  *)
(* positions that are 1.                                                   *)
(***************************************************************************)
EXTENDS Integers, Sequences, FiniteSets, TLC

BITSIZ == 8
DBLKSIZ == 4096
PBLKSIZ == 1024
PAIRMAX == 1008
SPLTMAX == 10
SHORTSIZE == 2

StoreNONE == 0
StoreREPLACE == 1
StoreSEEDUPS == 2

\* Nullitem = Datum(nil): the absent datum, distinct from every byte sequence
\* (bytes are 0..255).
Nullitem == <<-1>>

\* Datum.Size: len of a nil slice is 0
Size(d) == IF d = Nullitem THEN 0 ELSE Len(d)

ErrNone == "ok"
ErrInvalidArgument == "invalid argument"
ErrInvalidPage == "invalid page"
ErrDBMRDOnly == "dbm read only"
\* a Go run-time panic (slice bounds out of range): the process dies
ErrPanic == "panic"
\* what os.File.Close may report, and what Close makes of it with wrapIOErr
ErrIO == "input/output error"
ErrCloseDir == "close .dir: input/output error"
ErrClosePag == "close .pag: input/output error"
CloseErrs == {ErrNone, ErrIO}

U16 == 65536

Min(a, b) == IF a <= b THEN a ELSE b

(***************************************************************************)
(* Bounds of the model.                                                    *)
(***************************************************************************)
\* Store and Delete are called only while fewer than this many calls have
\* written the page file.
MaxWrites == 3
\* the same bound where the values are short
MaxSmallWrites == 4
\* the same bound where the store is closed and opened again
MaxReopenWrites == 2
\* NextKey is called only while blkptr is below this.
MaxBlkptr == 3
\* the length of the long value: two pairs with it fill a page
BigLen == 500

\* keys handed to Store (one byte each: Hash(<<b>>) = b)
StoreKeys == {<<1>>, <<2>>, <<3>>}
\* keys handed to Fetch and Delete: <<0>> is never stored
Keys == StoreKeys \cup {<<0>>}
BigVal == [i \in 1..BigLen |-> 0]
Vals == {<< >>, BigVal}
SmallVals == {<< >>, <<0>>}

\* three keys whose hashes agree in their low 9 bits (63, 65599 and 590399),
\* and a value so long that two pairs leave too little room for a third
MidLen == 337
\* Store is called on these keys while fewer than this many calls have written
MaxOverfillWrites == 3
OverKeys == {<<0, 63>>, <<1, 0>>, <<9, 8>>}
\* with a key of another page
OverFetchKeys == OverKeys \cup {<<1>>}
MidVal == [i \in 1..MidLen |-> 0]
Flags == {StoreNONE, StoreREPLACE, StoreSEEDUPS}
\* the flags with which no key gets a second pair
OnceFlags == {StoreREPLACE, StoreSEEDUPS}

\* keys of which three fill a page with values of MidLen bytes: <<1>>, <<3>>
\* and <<5>> take two splits to part
MaxSplitWrites == 4
\* SpecScanStore: a Store follows a scan of a store that has split
MaxScanStoreWrites == 4
\* SpecDeep: values of which one fills a page, and keys whose hashes are
\* 0xFF, 0x1FFFF and 0x3FFFF: the directory grows to 18 levels along the path
\* of the set bits, past its first block
MaxDeepWrites == 3
DeepLen == 600
DeepKeys == {<<255>>, <<13, 219, 141>>, <<13, 221, 15>>}
DeepVal == [i \in 1..DeepLen |-> 0]
SplitKeys == {<<1>>, <<2>>, <<3>>, <<5>>}

\* inputs of Hash: up to MaxHashLen bytes
MaxHashLen == 6
HashBytes == {0, 97, 255}

\* arguments at the edges of what Store accepts: the nil key, the key of
\* length zero, and values that bring a pair to PAIRMAX and past it
MaxArgWrites == 2
ArgKeys == {Nullitem, << >>, <<1>>}
MaxVal == [i \in 1..(PAIRMAX - 1) |-> 0]
OverVal == [i \in 1..PAIRMAX |-> 0]
ArgVals == {<< >>, MaxVal, OverVal}

(***************************************************************************)
(* Hash: h <- 65599*h + b on a uint64, kept as four 16-bit limbs, least    *)
(* significant first (65599 = 2^16 + 63).                                  *)
(***************************************************************************)
\* the step with the multiplier 65587 that the comment on Hash mentions
HashStep65587(h, b) ==
    LET t1 == 51 * h[1] + b
        t2 == 51 * h[2] + h[1] + (t1 \div U16)
        t3 == 51 * h[3] + h[2] + (t2 \div U16)
        t4 == 51 * h[4] + h[3] + (t3 \div U16)
    IN  <<t1 % U16, t2 % U16, t3 % U16, t4 % U16>>

HashStep(h, b) ==
    LET t1 == 63 * h[1] + b
        t2 == 63 * h[2] + h[1] + (t1 \div U16)
        t3 == 63 * h[3] + h[2] + (t2 \div U16)
        t4 == 63 * h[4] + h[3] + (t3 \div U16)
    IN  <<t1 % U16, t2 % U16, t3 % U16, t4 % U16>>

RECURSIVE HashFrom(_, _, _)
HashFrom(h, data, i) ==
    IF i > Len(data) THEN h ELSE HashFrom(HashStep(h, data[i]), data, i + 1)

Hash(data) == HashFrom(<<0, 0, 0, 0>>, data, 1)

exHash(item) == Hash(item)

\* the low 30 bits of a hash, as a number
HashLow(h) == h[1] + U16 * (h[2] % 16384)

\* hash & mask, for a mask 2^k - 1 (k <= 30)
HashAnd(h, mask) == HashLow(h) % (mask + 1)

\* hash & bit != 0, for bit = 2^k (k < 30)
HashBit(h, bit) == (HashLow(h) \div bit) % 2 = 1

(***************************************************************************)
(* Page buffers.                                                           *)
(***************************************************************************)
ZeroPage == [i \in {} |-> 0]

PageByte(p, i) == IF i \in DOMAIN p THEN p[i] ELSE 0

\* p.buf[lo:hi] as a byte sequence
Slice(p, lo, hi) == [j \in 1..(hi - lo) |-> PageByte(p, lo + j - 1)]

\* p.buf[lo:hi] panics (slice bounds out of range) unless 0 <= lo <= hi <= PBLKSIZ
SlicePanics(lo, hi) == lo < 0 \/ lo > hi \/ hi > PBLKSIZ

\* copy(p.buf[off:], data): copies min(len(p.buf[off:]), len(data)) bytes
CopyIn(p, off, data) ==
    LET n == Min(Len(data), PBLKSIZ - off)
        R == off..(off + n - 1)
        D == (DOMAIN p \ R) \cup {i \in R : data[i - off + 1] # 0}
    IN  [i \in D |-> IF i \in R THEN data[i - off + 1] ELSE p[i]]

getIno(p, i) == PageByte(p, 2 * i) + 256 * PageByte(p, 2 * i + 1)

setIno(p, i, val) == CopyIn(p, 2 * i, <<val % 256, val \div 256>>)

getN(p) == getIno(p, 0)

setN(p, val) == setIno(p, 0, val)

\* the end of the payload of slot i: PBLKSIZ for the first slot
PrevEnd(p, i) == IF i = 1 THEN PBLKSIZ ELSE getIno(p, i - 1)

FitPair(p, need) ==
    LET n == getN(p)
        off == IF n > 0 THEN getIno(p, n) ELSE PBLKSIZ
        free == off - (n + 1) * SHORTSIZE
    IN  need + 2 * SHORTSIZE <= free

\* PutPair panics when a slice start is negative or an offset slot lies
\* outside the buffer.
PutPairPanics(p, key, val) ==
    LET n == getN(p)
        off == IF n > 0 THEN getIno(p, n) ELSE PBLKSIZ
    IN  \/ off - Len(key) < 0
        \/ off - Len(key) > PBLKSIZ
        \/ off - Len(key) - Len(val) < 0
        \/ 2 * (n + 2) + 2 > PBLKSIZ

PutPair(p, key, val) ==
    LET n == getN(p)
        off == IF n > 0 THEN getIno(p, n) ELSE PBLKSIZ
        koff == off - Len(key)
        p1 == setIno(CopyIn(p, koff, key), n + 1, koff % U16)
        voff == koff - Len(val)
        p2 == setIno(CopyIn(p1, voff, val), n + 2, voff % U16)
    IN  setN(p2, (n + 2) % U16)

RECURSIVE ChkLoop(_, _, _, _)
ChkLoop(p, i, n, off) ==
    IF n <= 0
    THEN TRUE
    ELSE LET keyOff == getIno(p, i)
             valOff == getIno(p, i + 1)
         IN  IF keyOff > off \/ valOff > off \/ valOff > keyOff
             THEN FALSE
             ELSE ChkLoop(p, i + 2, n - 2, valOff)

ChkPage(p) ==
    LET n == getN(p)
    IN  IF n < 0 \/ n > PBLKSIZ \div SHORTSIZE THEN FALSE ELSE ChkLoop(p, 1, n, PBLKSIZ)

\* On a page that passes ChkPage every slot lies in the buffer and the offsets
\* never grow, so no slice of a key or a value is out of range: only a page
\* that fails it can make the functions below panic.
WellFormed(p) == ChkPage(p) /\ 2 * getN(p) + 6 <= PBLKSIZ

\* the odd slots i < n whose key equals key
SeeSlots(p, n, key) ==
    {i \in 1..(n - 1) :
        /\ i % 2 = 1
        /\ Len(key) = PrevEnd(p, i) - getIno(p, i)
        /\ ~SlicePanics(getIno(p, i), getIno(p, i) + Len(key))
        /\ key = Slice(p, getIno(p, i), getIno(p, i) + Len(key))}

seePair(p, n, key) ==
    LET S == SeeSlots(p, n, key)
    IN  IF S = {} THEN 0 ELSE CHOOSE i \in S : \A j \in S : i <= j

\* seePair panics at the first slot whose length matches and whose slice
\* p.buf[cur:cur+len(key)] is out of range, if no slot before it holds the key
seePairPanics(p, n, key) ==
    /\ ~WellFormed(p)
    /\ \E i \in 1..(n - 1) :
        /\ i % 2 = 1
        /\ Len(key) = PrevEnd(p, i) - getIno(p, i)
        /\ SlicePanics(getIno(p, i), getIno(p, i) + Len(key))
        /\ \A j \in SeeSlots(p, n, key) : j > i

GetPairPanics(p, key) ==
    LET n == getN(p)
        i == seePair(p, n, key)
    IN  /\ n # 0
        /\ ~WellFormed(p)
        /\ \/ seePairPanics(p, n, key)
           \/ i # 0 /\ SlicePanics(getIno(p, i + 1), getIno(p, i))

DupPairPanics(p, key) == getN(p) # 0 /\ seePairPanics(p, getN(p), key)

GetPair(p, key) ==
    LET n == getN(p)
        i == IF n = 0 THEN 0 ELSE seePair(p, n, key)
    IN  IF i = 0 THEN Nullitem ELSE Slice(p, getIno(p, i + 1), getIno(p, i))

\* DupPair that never finds the key
DupPairNever(p, key) == FALSE

DupPair(p, key) ==
    LET n == getN(p)
    IN  IF n = 0 THEN FALSE ELSE seePair(p, n, key) > 0

GetNKey(p, num0) ==
    LET num == num0 * 2 - 1
        n == getN(p)
    IN  IF n = 0 \/ num > n
        THEN Nullitem
        ELSE Slice(p, getIno(p, num), IF num > 1 THEN getIno(p, num - 1) ELSE PBLKSIZ)

GetNKeyPanics(p, num0) ==
    LET num == num0 * 2 - 1
        n == getN(p)
    IN  /\ n # 0
        /\ num <= n
        /\ ~WellFormed(p)
        /\ SlicePanics(getIno(p, num), IF num > 1 THEN getIno(p, num - 1) ELSE PBLKSIZ)

\* copy(p.buf[dst-m:], p.buf[src-m:]) in DelPair: both slices run to the end
\* of the buffer, so the copy moves len(p.buf[dst-m:]) bytes up by dst - src
\* (Go's copy is a memmove).
DelShift(p, dst, src, m) ==
    LET zoo == dst - src
        R == (dst - m)..(PBLKSIZ - 1)
        D == (DOMAIN p \ R) \cup {i \in R : PageByte(p, i - zoo) # 0}
    IN  [i \in D |-> IF i \in R THEN PageByte(p, i - zoo) ELSE p[i]]

\* the loop "for i < n-1 { p.setIno(i, p.getIno(i+2)+uint16(zoo)); i++ }"
RECURSIVE DelAdjust(_, _, _, _)
DelAdjust(p, i, n, zoo) ==
    IF i < n - 1
    THEN DelAdjust(setIno(p, i, (getIno(p, i + 2) + zoo) % U16), i + 1, n, zoo)
    ELSE p

DelPairPanics(p, key) ==
    LET n == getN(p)
        i == seePair(p, n, key)
        dst == PrevEnd(p, i)
        src == getIno(p, i + 1)
        m == (getIno(p, i + 1) - getIno(p, n)) % U16
    IN  /\ n # 0
        /\ ~WellFormed(p)
        /\ \/ seePairPanics(p, n, key)
           \/ /\ i # 0
              /\ i < n - 1
              /\ SlicePanics(dst - m, PBLKSIZ) \/ SlicePanics(src - m, PBLKSIZ)

DelPair(p, key) ==
    LET n == getN(p)
        i == IF n = 0 THEN 0 ELSE seePair(p, n, key)
        dst == PrevEnd(p, i)
        src == getIno(p, i + 1)
        m == (getIno(p, i + 1) - getIno(p, n)) % U16
        p1 == IF i < n - 1
              THEN DelAdjust(DelShift(p, dst, src, m), i, n, dst - src)
              ELSE p
    IN  IF i = 0
        THEN [pag |-> p, ok |-> FALSE]
        ELSE [pag |-> setN(p1, (getN(p1) - 2) % U16), ok |-> TRUE]

\* SplPage: cur is the page as it was, old and new the two pages being filled
RECURSIVE SplLoop(_, _, _, _, _, _, _)
SplLoop(cur, old, new, sbit, i, n, off) ==
    IF n <= 0
    THEN [old |-> old, new |-> new]
    ELSE LET keyOff == getIno(cur, i)
             valOff == getIno(cur, i + 1)
             key == Slice(cur, keyOff, off)
             val == Slice(cur, valOff, keyOff)
         IN  IF HashBit(exHash(key), sbit)
             THEN SplLoop(cur, old, PutPair(new, key, val), sbit, i + 2, n - 2, valOff)
             ELSE SplLoop(cur, PutPair(old, key, val), new, sbit, i + 2, n - 2, valOff)

\* SplPage that tests "exHash(key)&sbit == 0" for the new page
SplPageSwapped(p, sbit) ==
    [old |-> SplLoop(p, ZeroPage, ZeroPage, sbit, 1, getIno(p, 0), PBLKSIZ).new,
     new |-> SplLoop(p, ZeroPage, ZeroPage, sbit, 1, getIno(p, 0), PBLKSIZ).old]

SplPage(p, sbit) == SplLoop(p, ZeroPage, ZeroPage, sbit, 1, getIno(p, 0), PBLKSIZ)

\* SplPage panics when a slot lies outside the buffer, a key or value slice is
\* out of range, or PutPair panics
RECURSIVE SplPanicsLoop(_, _, _, _, _, _, _)
SplPanicsLoop(cur, old, new, sbit, i, n, off) ==
    IF n <= 0
    THEN FALSE
    ELSE LET keyOff == getIno(cur, i)
             valOff == getIno(cur, i + 1)
             key == Slice(cur, keyOff, off)
             val == Slice(cur, valOff, keyOff)
             toNew == HashBit(exHash(key), sbit)
         IN  \/ 2 * (i + 1) + 2 > PBLKSIZ
             \/ SlicePanics(keyOff, off)
             \/ SlicePanics(valOff, keyOff)
             \/ PutPairPanics(IF toNew THEN new ELSE old, key, val)
             \/ SplPanicsLoop(cur, IF toNew THEN old ELSE PutPair(old, key, val),
                              IF toNew THEN PutPair(new, key, val) ELSE new,
                              sbit, i + 2, n - 2, valOff)

SplPagePanics(p, sbit) ==
    /\ ~WellFormed(p)
    /\ SplPanicsLoop(p, ZeroPage, ZeroPage, sbit, 1, getIno(p, 0), PBLKSIZ)

\* the keys of a page, in slot order
PageKeys(p) == [j \in 1..(getN(p) \div 2) |-> GetNKey(p, j)]

(***************************************************************************)
(* Files.  A file is [len |-> its length in blocks, blk |-> the blocks     *)
(* that are not all zero]; a hole reads as zeros.                          *)
(***************************************************************************)
offPag(off) == off * PBLKSIZ

offDir(off) == off * DBLKSIZ

EmptyFile == [len |-> 0, blk |-> [b \in {} |-> 0]]

PagBlock(f, b) == IF b \in DOMAIN f.blk THEN f.blk[b] ELSE ZeroPage

DirBlock(f, b) == IF b \in DOMAIN f.blk THEN f.blk[b] ELSE {}

PagPut(f, b, data) ==
    LET D == (DOMAIN f.blk \ {b}) \cup (IF data = ZeroPage THEN {} ELSE {b})
    IN  [len |-> IF b + 1 > f.len THEN b + 1 ELSE f.len,
         blk |-> [c \in D |-> IF c = b THEN data ELSE f.blk[c]]]

DirPut(f, b, bits) ==
    LET D == (DOMAIN f.blk \ {b}) \cup (IF bits = {} THEN {} ELSE {b})
    IN  [len |-> IF b + 1 > f.len THEN b + 1 ELSE f.len,
         blk |-> [c \in D |-> IF c = b THEN bits ELSE f.blk[c]]]

(***************************************************************************)
(* The DBM handle and the two files, as one record w that the operations   *)
(* thread through: the fields of the DBM struct, pagpos (the offset of the *)
(* page file's descriptor), the files pagf and dirf, and wlog, the writes   *)
(* the running call has made to the files, in order.                       *)
(***************************************************************************)
\* seekRead(db.pagf, offPag(b), io.SeekStart, db.pag.buf[:]): at or past the
\* end of the file Read returns io.EOF, which is ignored, and the buffer
\* keeps its bytes.
PagSeekRead(w, b) ==
    IF b < w.pagf.len
    THEN [w EXCEPT !.pag = PagBlock(w.pagf, b), !.pagpos = offPag(b) + PBLKSIZ]
    ELSE [w EXCEPT !.pagpos = offPag(b)]

\* seekWrite(db.pagf, offPag(b), io.SeekStart, buf)
PagSeekWrite(w, b, buf) ==
    [w EXCEPT !.pagf = PagPut(w.pagf, b, buf), !.pagpos = offPag(b) + PBLKSIZ,
              !.wlog = Append(@, [f |-> "pag", b |-> b, data |-> buf])]

\* the "if dirb != db.dirbno { seekRead ...; db.dirbno = dirb }" of getDBit and
\* setDBit
DirLoad(w, dirb) ==
    IF dirb # w.dirbno
    THEN [w EXCEPT !.dirbuf = IF dirb < w.dirf.len THEN DirBlock(w.dirf, dirb) ELSE @,
                   !.dirbno = dirb]
    ELSE w

\* the position in dirbuf of bit dbit: byte c%DBLKSIZ, bit dbit%BITSIZ
DirPos(dbit) == ((dbit \div BITSIZ) % DBLKSIZ) * BITSIZ + (dbit % BITSIZ)

getDBit(w, dbit) ==
    LET c == dbit \div BITSIZ
        dirb == c \div DBLKSIZ
        w1 == DirLoad(w, dirb)
    IN  [w |-> w1, bit |-> DirPos(dbit) \in w1.dirbuf]

setDBit(w, dbit) ==
    LET c == dbit \div BITSIZ
        dirb == c \div DBLKSIZ
        w1 == DirLoad(w, dirb)
        w2 == [w1 EXCEPT !.dirbuf = @ \cup {DirPos(dbit)},
                         !.maxbno = IF dbit >= @ THEN @ + DBLKSIZ * BITSIZ ELSE @]
    IN  [w2 EXCEPT !.dirf = DirPut(w2.dirf, dirb, w2.dirbuf),
                   !.wlog = Append(@, [f |-> "dir", b |-> dirb, data |-> w2.dirbuf,
                                       dbit |-> dbit])]

RECURSIVE Pow2(_)
Pow2(k) == IF k = 0 THEN 1 ELSE 2 * Pow2(k - 1)

\* masks[hbit]; the table has 32 entries
masks(hbit) == IF hbit = 31 THEN 2147483647 ELSE Pow2(hbit) - 1

\* hash & (1 << hbit) != 0
HashBitAt(h, hbit) == (h[(hbit \div 16) + 1] \div Pow2(hbit % 16)) % 2 = 1

\* the loop of getPage
RECURSIVE TrieWalk(_, _, _, _)
TrieWalk(w, hash, dbit, hbit) ==
    IF dbit < w.maxbno
    THEN LET r == getDBit(w, dbit)
         IN  IF r.bit
             THEN TrieWalk(r.w, hash,
                           IF HashBitAt(hash, hbit) THEN 2 * dbit + 2 ELSE 2 * dbit + 1,
                           hbit + 1)
             ELSE [w |-> r.w, dbit |-> dbit, hbit |-> hbit]
    ELSE [w |-> w, dbit |-> dbit, hbit |-> hbit]

getPage(w, hash) ==
    LET r == TrieWalk(w, hash, 0, 0)
        w1 == [r.w EXCEPT !.curbit = r.dbit, !.hmask = masks(r.hbit)]
        pagb == HashAnd(hash, w1.hmask)
        w2 == PagSeekRead(w1, pagb)
    IN  IF r.hbit > 31
        THEN [w |-> [r.w EXCEPT !.curbit = r.dbit], err |-> ErrPanic]
        ELSE IF pagb # w1.pagbno
             THEN IF ~ChkPage(w2.pag)
                  THEN [w |-> w2, err |-> ErrInvalidPage]
                  ELSE [w |-> [w2 EXCEPT !.pagbno = pagb], err |-> ErrNone]
             ELSE [w |-> w1, err |-> ErrNone]

\* seekWrite(db.pagf, offPag(db.pagbno), io.SeekStart, db.pag.buf[:])
WritePag(w) == PagSeekWrite(w, w.pagbno, w.pag)

\* "if hash&(db.hmask+1) != 0 { ... } else { ... }" of a pass, db.pag holding
\* the old half already: the half the pair does not go to is written
SplitWrite(w, hash, newp, new) ==
    IF HashBit(hash, w.hmask + 1)
    THEN [WritePag(w) EXCEPT !.pagbno = newp, !.pag = new]
    ELSE PagSeekWrite(w, newp, new)

\* "db.setDBit(db.curbit)"
SplitDBit(w) == setDBit(w, w.curbit)

\* a pass from the two pages sp that SplPage has made
SplitPages(w, hash, sp) ==
    SplitDBit(SplitWrite([w EXCEPT !.pag = sp.old], hash,
                         HashAnd(hash, w.hmask) + (w.hmask + 1), sp.new))

\* a pass that sets the directory bit before it writes a page
SplitOnceDirFirst(w, hash) ==
    LET sp == SplPage(w.pag, w.hmask + 1)
        newp == HashAnd(hash, w.hmask) + (w.hmask + 1)
        w0 == setDBit([w EXCEPT !.pag = sp.old], w.curbit)
    IN  IF HashBit(hash, w.hmask + 1)
        THEN [PagSeekWrite(w0, w0.pagbno, w0.pag) EXCEPT !.pagbno = newp,
                                                          !.pag = sp.new]
        ELSE PagSeekWrite(w0, newp, sp.new)

\* one pass of the loop of makeRoom, up to the test of FitPair
SplitOnce(w, hash) == SplitPages(w, hash, SplPage(w.pag, w.hmask + 1))

\* "for smax--; smax > 0; smax--": smax is the value the loop tests; a pass in
\* which SplPage panics ends the loop with the handle as that pass found it
RECURSIVE MakeRoomLoop(_, _, _, _)
\* "try again... update curbit and hmask as getpage would have done", then the
\* write of the page the pair goes to
MakeRoomRetry(w, hash) ==
    WritePag([w EXCEPT !.curbit = IF HashBit(hash, w.hmask + 1)
                                  THEN 2 * @ + 2 ELSE 2 * @ + 1,
                       !.hmask = 2 * @ + 1])

\* the end of a pass: w is the handle after setDBit
MakeRoomFit(w, hash, need, smax) ==
    IF FitPair(w.pag, need)
    THEN w
    ELSE MakeRoomLoop(MakeRoomRetry(w, hash), hash, need, smax - 1)

MakeRoomLoop(w, hash, need, smax) ==
    IF smax > 0 /\ ~SplPagePanics(w.pag, w.hmask + 1)
    THEN MakeRoomFit(SplitOnce(w, hash), hash, need, smax)
    ELSE w

makeRoom(w, hash, need) == MakeRoomLoop(w, hash, need, SPLTMAX - 1)

RECURSIVE MakeRoomPanicsLoop(_, _, _, _)
MakeRoomPanicsLoop(w, hash, need, smax) ==
    /\ smax > 0
    /\ \/ SplPagePanics(w.pag, w.hmask + 1)
       \/ \E w2 \in {SplitOnce(w, hash)} :
            /\ ~FitPair(w2.pag, need)
            /\ MakeRoomPanicsLoop(MakeRoomRetry(w2, hash), hash, need, smax - 1)

\* SplPage leaves two pages that PutPair built: only the first pass can meet
\* a page that is not well formed
makeRoomPanics(w, hash, need) ==
    /\ ~WellFormed(w.pag)
    /\ MakeRoomPanicsLoop(w, hash, need, SPLTMAX - 1)

bad(x) == x = Nullitem

\* Fetch after "db.getPage(exHash(key))", which returned g
FetchOnPage(g, key) ==
    IF g.err # ErrNone
    THEN [w |-> g.w, res |-> Nullitem, err |-> g.err]
    ELSE IF GetPairPanics(g.w.pag, key)
         THEN [w |-> g.w, res |-> Nullitem, err |-> ErrPanic]
         ELSE [w |-> g.w, res |-> GetPair(g.w.pag, key), err |-> ErrNone]

Fetch(w, key) ==
    IF bad(key)
    THEN [w |-> w, res |-> Nullitem, err |-> ErrInvalidArgument]
    ELSE FetchOnPage(getPage(w, exHash(key)), key)

\* Delete after "db.pag.DelPair(key)", which returned d
DeleteDone(w, d) ==
    IF ~d.ok
    THEN [w |-> [w EXCEPT !.pag = d.pag], res |-> FALSE, err |-> ErrNone]
    ELSE [w |-> WritePag([w EXCEPT !.pag = d.pag]), res |-> TRUE, err |-> ErrNone]

\* Delete after "db.getPage(exHash(key))", which returned g
DeleteOnPage(g, key) ==
    IF g.err # ErrNone
    THEN [w |-> g.w, res |-> FALSE, err |-> g.err]
    ELSE IF DelPairPanics(g.w.pag, key)
         THEN [w |-> g.w, res |-> FALSE, err |-> ErrPanic]
         ELSE DeleteDone(g.w, DelPair(g.w.pag, key))

Delete(w, key) ==
    IF bad(key)
    THEN [w |-> w, res |-> FALSE, err |-> ErrInvalidArgument]
    ELSE IF w.rdonly
         THEN [w |-> w, res |-> FALSE, err |-> ErrDBMRDOnly]
         ELSE DeleteOnPage(getPage(w, exHash(key)), key)

\* a pair is too big at PAIRMAX already
TooBigAtMax(need) == need < 0 \/ need >= PAIRMAX

\* "is the pair too big (or too small) for this database ??"
TooBig(need) == need < 0 \/ need > PAIRMAX

\* "db.pag.PutPair(key, val)" and the write of the page; panicked: makeRoom
\* has panicked
StorePut(w, panicked, key, val) ==
    IF panicked \/ PutPairPanics(w.pag, key, val)
    THEN [w |-> w, res |-> FALSE, err |-> ErrPanic]
    ELSE [w |-> WritePag([w EXCEPT !.pag = PutPair(@, key, val)]),
          res |-> TRUE, err |-> ErrNone]

\* "if !db.pag.FitPair(need) { db.makeRoom(hash, need) }" and what follows
StoreRoom(w, hash, need, key, val) ==
    IF FitPair(w.pag, need)
    THEN StorePut(w, FALSE, key, val)
    ELSE StorePut(makeRoom(w, hash, need), makeRoomPanics(w, hash, need), key, val)

\* Store after "db.getPage(hash)", which returned g
StoreOnPage(g, hash, need, key, val, flags) ==
    IF g.err # ErrNone
    THEN [w |-> g.w, res |-> FALSE, err |-> g.err]
    ELSE IF \/ flags = StoreREPLACE /\ DelPairPanics(g.w.pag, key)
            \/ flags = StoreSEEDUPS /\ DupPairPanics(g.w.pag, key)
         THEN [w |-> g.w, res |-> FALSE, err |-> ErrPanic]
         ELSE IF flags = StoreSEEDUPS /\ DupPair(g.w.pag, key)
              THEN [w |-> g.w, res |-> TRUE, err |-> ErrNone]
              ELSE StoreRoom(IF flags = StoreREPLACE
                             THEN [g.w EXCEPT !.pag = DelPair(@, key).pag]
                             ELSE g.w,
                             hash, need, key, val)

Store(w, key, val, flags) ==
    IF bad(key)
    THEN [w |-> w, res |-> FALSE, err |-> ErrInvalidArgument]
    ELSE IF w.rdonly
         THEN [w |-> w, res |-> FALSE, err |-> ErrDBMRDOnly]
         ELSE IF TooBig(Size(key) + Size(val))
              THEN [w |-> w, res |-> FALSE, err |-> ErrInvalidArgument]
              ELSE StoreOnPage(getPage(w, exHash(key)), exHash(key),
                               Size(key) + Size(val), key, val, flags)

\* db.pagf.Read(db.pag.buf[:]) at the descriptor's offset, then ChkPage
RECURSIVE getNext(_)
getNext(w) ==
    LET w1 == [w EXCEPT !.keyptr = @ + 1]
        key == GetNKey(w1.pag, w1.keyptr)
        w2 == [w1 EXCEPT !.keyptr = 0]
        w3 == IF w2.pagbno # w2.blkptr
              THEN [w2 EXCEPT !.blkptr = @ + 1, !.pagpos = offPag(w2.blkptr + 1)]
              ELSE w2
        w4 == [w3 EXCEPT !.pagbno = w3.blkptr]
        w5 == [w4 EXCEPT !.pag = PagBlock(w4.pagf, w4.pagpos \div PBLKSIZ),
                         !.pagpos = @ + PBLKSIZ]
    IN  IF GetNKeyPanics(w1.pag, w1.keyptr)
        THEN [w |-> w1, res |-> Nullitem, err |-> ErrPanic]
        ELSE IF key # Nullitem
        THEN [w |-> w1, res |-> key, err |-> ErrNone]
        ELSE IF w4.pagpos >= offPag(w4.pagf.len)
             THEN [w |-> w4, res |-> Nullitem, err |-> ErrNone]
             ELSE IF ~ChkPage(w5.pag)
                  THEN [w |-> w5, res |-> Nullitem, err |-> ErrInvalidPage]
                  ELSE getNext(w5)

\* FirstKey that leaves keyptr where it was
FirstKeyKeepsKeyptr(w) ==
    getNext([PagSeekRead(w, 0) EXCEPT !.pagbno = 0, !.blkptr = 0])

FirstKey(w) ==
    getNext([PagSeekRead(w, 0) EXCEPT !.pagbno = 0, !.blkptr = 0, !.keyptr = 0])

NextKey(w) == getNext(w)

\* Prep that never sets rdonly
PrepNeverRDOnly(pf, df, ro) ==
    [rdonly |-> FALSE, maxbno |-> offDir(df.len) * BITSIZ, curbit |-> 0, hmask |-> 0,
     blkptr |-> 0, keyptr |-> 0, pagbno |-> -1, pag |-> ZeroPage,
     dirbno |-> IF df.len = 0 THEN 0 ELSE -1, dirbuf |-> {},
     pagpos |-> 0, pagf |-> pf, dirf |-> df, wlog |-> << >>]

\* the DBM that Prep returns: a zero struct but for rdonly, dirbno, pagbno and
\* maxbno; both descriptors start at offset 0
Prep(pf, df, ro) ==
    [rdonly |-> ro, maxbno |-> offDir(df.len) * BITSIZ, curbit |-> 0, hmask |-> 0,
     blkptr |-> 0, keyptr |-> 0, pagbno |-> -1, pag |-> ZeroPage,
     dirbno |-> IF df.len = 0 THEN 0 ELSE -1, dirbuf |-> {},
     pagpos |-> 0, pagf |-> pf, dirf |-> df, wlog |-> << >>]

\* Close that gives up at the first close that fails
CloseStopsAtFirst(errDir, errPag) ==
    [res |-> IF errDir # ErrNone THEN <<"dirf">> ELSE <<"dirf", "pagf">>,
     err |-> IF errDir # ErrNone
             THEN ErrCloseDir
             ELSE IF errPag # ErrNone THEN ErrClosePag ELSE ErrNone]

\* Close, given what the two os.File.Close calls return: res lists the files
\* it has called Close on, in order
Close(errDir, errPag) ==
    [res |-> <<"dirf", "pagf">>,
     err |-> IF errDir # ErrNone
             THEN ErrCloseDir
             ELSE IF errPag # ErrNone THEN ErrClosePag ELSE ErrNone]

(***************************************************************************)
(* The state: the handle's fields, the two files, how the caller opened    *)
(* the handle ("rw", "ro", "closed", or "dead" after a panic), and what    *)
(* the caller has seen: the last call with what it returned, the keys of   *)
(* the running scan, and the pairs it has stored.                          *)
(***************************************************************************)
VARIABLES rdonly, maxbno, curbit, hmask, blkptr, keyptr, pagbno, pag, dirbno,
          dirbuf, pagpos, pagf, dirf, handle, last, scan, stored, nwrites

vars == <<rdonly, maxbno, curbit, hmask, blkptr, keyptr, pagbno, pag, dirbno,
          dirbuf, pagpos, pagf, dirf, handle, last, scan, stored, nwrites>>

W == [rdonly |-> rdonly, maxbno |-> maxbno, curbit |-> curbit, hmask |-> hmask,
      blkptr |-> blkptr, keyptr |-> keyptr, pagbno |-> pagbno, pag |-> pag,
      dirbno |-> dirbno, dirbuf |-> dirbuf, pagpos |-> pagpos, pagf |-> pagf,
      dirf |-> dirf, wlog |-> << >>]

IsOpen == handle \in {"rw", "ro"}

Commit(w) ==
    /\ rdonly' = w.rdonly
    /\ maxbno' = w.maxbno
    /\ curbit' = w.curbit
    /\ hmask' = w.hmask
    /\ blkptr' = w.blkptr
    /\ keyptr' = w.keyptr
    /\ pagbno' = w.pagbno
    /\ pag' = w.pag
    /\ dirbno' = w.dirbno
    /\ dirbuf' = w.dirbuf
    /\ pagpos' = w.pagpos
    /\ pagf' = w.pagf
    /\ dirf' = w.dirf

Call(op, key, val, flags, res, err) ==
    [op |-> op, key |-> key, val |-> val, flags |-> flags, res |-> res, err |-> err]

\* the keys returned by FirstKey and the NextKey calls that followed it with no
\* other call in between, up to the first absent one; << >> when no such scan
\* is running
ScanAfter(c) ==
    IF c.err # ErrNone
    THEN << >>
    ELSE IF c.op = "FirstKey"
         THEN <<c.res>>
         ELSE IF c.op = "NextKey" /\ scan # << >> /\ scan[Len(scan)] # Nullitem
              THEN Append(scan, c.res)
              ELSE << >>

\* st without its first pair of key key
RECURSIVE DropFirst(_, _)
DropFirst(st, key) ==
    IF st = << >>
    THEN << >>
    ELSE IF Head(st)[1] = key THEN Tail(st) ELSE <<Head(st)>> \o DropFirst(Tail(st), key)

HasKey(st, key) == \E i \in 1..Len(st) : st[i][1] = key

\* the caller's record of the pairs it holds in the store, oldest first: a
\* Store that returned true adds its pair (Replace drops the key's old pair
\* first, SkipDups adds nothing when the key is held), a Delete that
\* returned true drops the key's oldest pair
StoredAfter(c) ==
    IF c.op \notin {"Store", "Delete"} \/ c.err # ErrNone
    THEN stored
    ELSE IF ~c.res
         THEN stored
         ELSE IF c.op = "Delete"
              THEN DropFirst(stored, c.key)
              ELSE IF c.flags = StoreREPLACE
                   THEN Append(DropFirst(stored, c.key), <<c.key, c.val>>)
                   ELSE IF c.flags = StoreSEEDUPS /\ HasKey(stored, c.key)
                        THEN stored
                        ELSE Append(stored, <<c.key, c.val>>)

\* a call that ended in a panic ends the process: the handle is gone, the
\* files stay as the call left them
Return(r, op, key, val, flags) ==
    /\ last' = Call(op, key, val, flags, r.res, r.err)
    /\ scan' = ScanAfter(Call(op, key, val, flags, r.res, r.err))
    /\ stored' = StoredAfter(Call(op, key, val, flags, r.res, r.err))
    /\ IF r.err = ErrPanic
       THEN /\ handle' = "dead"
            /\ Commit(Prep(r.w.pagf, r.w.dirf, FALSE))
       ELSE /\ handle' = handle
            /\ Commit(r.w)

\* the calls that have written the page file
Writes(r) == nwrites' = IF r.w.pagf # pagf THEN nwrites + 1 ELSE nwrites

\* a handle that Prep has made on a path with no files
Fresh ==
    /\ handle = "rw"
    /\ scan = << >>
    /\ stored = << >>
    /\ rdonly = FALSE
    /\ maxbno = 0
    /\ curbit = 0
    /\ hmask = 0
    /\ blkptr = 0
    /\ keyptr = 0
    /\ pagbno = -1
    /\ pag = ZeroPage
    /\ dirbno = 0
    /\ dirbuf = {}
    /\ pagpos = 0
    /\ pagf = EmptyFile
    /\ dirf = EmptyFile
    /\ nwrites = 0

\* sdbm.Open(path, os.O_RDWR|os.O_CREATE, mode) on a path with no files
Init ==
    /\ Fresh
    /\ last = Call("Open", Nullitem, Nullitem, 0, FALSE, ErrNone)

\* Open of the existing files, read-only (os.O_RDONLY) or read-write
DoOpen(ro) ==
    /\ handle = "closed"
    /\ handle' = IF ro THEN "ro" ELSE "rw"
    /\ Commit(Prep(pagf, dirf, ro))
    /\ last' = Call("Open", Nullitem, Nullitem, 0, ro, ErrNone)
    /\ scan' = << >>
    /\ UNCHANGED <<stored, nwrites>>

\* Close; the call's record keeps what the two os.File.Close calls returned
\* as its key and val.  The descriptors are gone whatever Close reports.
DoClose(errDir, errPag) ==
    /\ IsOpen
    /\ handle' = "closed"
    /\ Commit(Prep(pagf, dirf, FALSE))
    /\ \E r \in {Close(errDir, errPag)} :
        last' = Call("Close", errDir, errPag, 0, r.res, r.err)
    /\ scan' = << >>
    /\ UNCHANGED <<stored, nwrites>>

DoFetch(key) ==
    /\ IsOpen
    /\ \E r \in {Fetch(W, key)} : Return(r, "Fetch", key, Nullitem, 0)
    /\ UNCHANGED nwrites

\* Store and Delete are called while fewer than maxw calls have written the
\* page file
DoDelete(key, maxw) ==
    /\ IsOpen
    /\ nwrites < maxw
    /\ \E r \in {Delete(W, key)} :
        /\ Writes(r)
        /\ Return(r, "Delete", key, Nullitem, 0)

DoStore(key, val, flags, maxw) ==
    /\ IsOpen
    /\ nwrites < maxw
    /\ \E r \in {Store(W, key, val, flags)} :
        /\ Writes(r)
        /\ Return(r, "Store", key, val, flags)

DoFirstKey ==
    /\ IsOpen
    /\ \E r \in {FirstKey(W)} : Return(r, "FirstKey", Nullitem, Nullitem, 0)
    /\ UNCHANGED nwrites

DoNextKey ==
    /\ IsOpen
    /\ blkptr < MaxBlkptr
    /\ \E r \in {NextKey(W)} : Return(r, "NextKey", Nullitem, Nullitem, 0)
    /\ UNCHANGED nwrites

\* one read-write handle on a store that starts empty; long values split pages
Next ==
    \/ \E key \in Keys : DoFetch(key)
    \/ \E key \in Keys : DoDelete(key, MaxWrites)
    \/ \E key \in StoreKeys, val \in Vals, flags \in Flags :
        DoStore(key, val, flags, MaxWrites)
    \/ DoFirstKey
    \/ DoNextKey

Spec == Init /\ [][Next]_vars

\* short values and more calls, all pairs on page 0, no key stored twice;
\* no scan
NextPoint ==
    \/ \E key \in Keys : DoFetch(key)
    \/ \E key \in Keys : DoDelete(key, MaxSmallWrites)
    \/ \E key \in StoreKeys, val \in SmallVals, flags \in OnceFlags :
        DoStore(key, val, flags, MaxSmallWrites)

SpecPoint == Init /\ [][NextPoint]_vars

\* empty values and more calls, all pairs on page 0, no key stored twice;
\* no Fetch
NextScan ==
    \/ \E key \in StoreKeys : DoDelete(key, MaxSmallWrites)
    \/ \E key \in StoreKeys, flags \in OnceFlags :
        DoStore(key, << >>, flags, MaxSmallWrites)
    \/ DoFirstKey
    \/ DoNextKey

SpecScan == Init /\ [][NextScan]_vars

\* keys that no split of makeRoom separates, no key stored twice
NextOverfill ==
    \/ \E key \in OverFetchKeys : DoFetch(key)
    \/ \E key \in OverKeys, flags \in OnceFlags :
        DoStore(key, MidVal, flags, MaxOverfillWrites)

SpecOverfill == Init /\ [][NextOverfill]_vars

\* the store is closed and opened again, read-only or read-write
NextReopen ==
    \/ \E ro \in BOOLEAN : DoOpen(ro)
    \/ \E errDir \in CloseErrs, errPag \in CloseErrs : DoClose(errDir, errPag)
    \/ \E key \in Keys : DoFetch(key)
    \/ \E key \in Keys : DoDelete(key, MaxReopenWrites)
    \/ \E key \in StoreKeys, val \in Vals, flags \in Flags :
        DoStore(key, val, flags, MaxReopenWrites)
    \/ DoFirstKey
    \/ DoNextKey

SpecReopen == Init /\ [][NextReopen]_vars

\* values of which two fill a page, no key stored twice: every third Store
\* of a page splits it, once or twice
NextSplit ==
    \/ \E key \in SplitKeys : DoDelete(key, MaxSplitWrites)
    \/ \E key \in SplitKeys, flags \in OnceFlags :
        DoStore(key, MidVal, flags, MaxSplitWrites)

SpecSplit == Init /\ [][NextSplit]_vars

\* scans of a store whose pages have split, and Stores after them
NextScanStore ==
    \/ \E key \in StoreKeys, flags \in OnceFlags :
        DoStore(key, MidVal, flags, MaxScanStoreWrites)
    \/ DoFirstKey
    \/ DoNextKey

SpecScanStore == Init /\ [][NextScanStore]_vars

\* a directory of more than one block
NextDeep ==
    \/ \E key \in DeepKeys : DoFetch(key)
    \/ \E key \in DeepKeys : DoDelete(key, MaxDeepWrites)
    \/ \E key \in DeepKeys, flags \in OnceFlags :
        DoStore(key, DeepVal, flags, MaxDeepWrites)

SpecDeep == Init /\ [][NextDeep]_vars

\* Hash applied to the bytes given so far, one more byte at a time; the
\* call's record keeps the input as its key and the hash as its res
InitHash ==
    /\ Fresh
    /\ last = Call("Hash", << >>, Nullitem, 0, Hash(<< >>), ErrNone)

DoHash(b) ==
    /\ last.op = "Hash"
    /\ Len(last.key) < MaxHashLen
    /\ last' = Call("Hash", Append(last.key, b), Nullitem, 0,
                     Hash(Append(last.key, b)), ErrNone)
    /\ UNCHANGED <<rdonly, maxbno, curbit, hmask, blkptr, keyptr, pagbno, pag,
                   dirbno, dirbuf, pagpos, pagf, dirf, handle, scan, stored,
                   nwrites>>

NextHash == \E b \in HashBytes : DoHash(b)

SpecHash == InitHash /\ [][NextHash]_vars

\* calls with nil and empty keys and with pairs at and past PAIRMAX, on
\* handles opened read-write and read-only
NextArgs ==
    \/ \E ro \in BOOLEAN : DoOpen(ro)
    \/ \E errDir \in CloseErrs, errPag \in CloseErrs : DoClose(errDir, errPag)
    \/ \E key \in ArgKeys : DoFetch(key)
    \/ \E key \in ArgKeys : DoDelete(key, MaxArgWrites)
    \/ \E key \in ArgKeys, val \in ArgVals, flags \in Flags :
        DoStore(key, val, flags, MaxArgWrites)

SpecArgs == Init /\ [][NextArgs]_vars

(***************************************************************************)
(* What the caller holds, by its own record.                               *)
(***************************************************************************)
\* the number of pairs of key key in st
Count(st, key) == Cardinality({i \in 1..Len(st) : st[i][1] = key})

\* no key is held twice
Distinct(st) == \A key \in StoreKeys : Count(st, key) <= 1

\* the keys of st, in order
KeysOf(st) == [i \in 1..Len(st) |-> st[i][1]]

\* the value of the newest pair of key key in st
NewestVal(st, key) ==
    st[CHOOSE i \in 1..Len(st) :
          /\ st[i][1] = key
          /\ \A j \in 1..Len(st) : st[j][1] = key => j <= i][2]

(***************************************************************************)
(* C1.  A successful Store(k, v, Replace) immediately followed by Fetch(k) *)
(* returns exactly v, whether k was absent or present before, wherever its *)
(* pair sits in its page.  Stated for a caller that holds no key twice.    *)
(***************************************************************************)
C1_ReplaceThenFetch ==
    (/\ IsOpen
     /\ last.op = "Store"
     /\ last.flags = StoreREPLACE
     /\ last.err = ErrNone
     /\ last.res
     /\ Distinct(stored))
    => (Fetch(W, last.key).err = ErrNone /\ Fetch(W, last.key).res = last.val)

(***************************************************************************)
(* C2.  For a key k present in the store, at any slot of its page,         *)
(* Delete(k) returns true, a following Fetch(k) returns absent and a       *)
(* second Delete(k) returns false with no error.  Stated for a key the     *)
(* caller holds once.                                                      *)
(***************************************************************************)
C2_DeleteThenMiss ==
    [][(/\ last'.op = "Delete"
        /\ Count(stored, last'.key) = 1
        /\ Distinct(stored))
       => (/\ last'.err = ErrNone
           /\ last'.res
           /\ Fetch(W', last'.key).err = ErrNone
           /\ Fetch(W', last'.key).res = Nullitem
           /\ Delete(W', last'.key).err = ErrNone
           /\ ~Delete(W', last'.key).res)]_vars

(***************************************************************************)
(* C3.  Delete(k) removes only k's pair: for every other key k2 the result *)
(* of Fetch(k2) is the same before and after Delete(k).                    *)
(***************************************************************************)
C3_DeleteFrame ==
    [][(last'.op = "Delete" /\ last'.err = ErrNone /\ Distinct(stored))
       => \A k2 \in Keys \ {last'.key} :
            /\ Fetch(W', k2).err = Fetch(W, k2).err
            /\ Fetch(W', k2).res = Fetch(W, k2).res]_vars

(***************************************************************************)
(* C4.  A successful Store of a key k that is not yet in the store leaves  *)
(* Fetch(k2) unchanged for every other stored key k2, also when the        *)
(* insertion splits pages in makeRoom.                                     *)
(***************************************************************************)
C4_StoreFrame ==
    [][(/\ last'.op = "Store"
        /\ last'.err = ErrNone
        /\ last'.res
        /\ ~HasKey(stored, last'.key)
        /\ Fetch(W, last'.key).res = Nullitem)
       => \A i \in 1..Len(stored) :
            stored[i][1] # last'.key
            => /\ Fetch(W', stored[i][1]).err = Fetch(W, stored[i][1]).err
               /\ Fetch(W', stored[i][1]).res = Fetch(W, stored[i][1]).res]_vars

(***************************************************************************)
(* C5.  For a key that has never been stored (no Store is ever called with *)
(* <<0>>), Fetch returns absent with no error, and Delete returns false    *)
(* with no error and writes neither file.                                  *)
(***************************************************************************)
NeverStored == <<0>>

C5_NeverStored ==
    IsOpen
    => (/\ Fetch(W, NeverStored).err = ErrNone
        /\ Fetch(W, NeverStored).res = Nullitem
        /\ Delete(W, NeverStored).err = ErrNone
        /\ ~Delete(W, NeverStored).res
        /\ Delete(W, NeverStored).w.pagf = pagf
        /\ Delete(W, NeverStored).w.dirf = dirf)

ScanEnded == scan # << >> /\ scan[Len(scan)] = Nullitem

\* the keys the scan returned before absent
ScanKeys == SubSeq(scan, 1, Len(scan) - 1)

(***************************************************************************)
(* C7.  With no other call between them, FirstKey, NextKey, NextKey, ...   *)
(* returns every stored key exactly once and then absent.  Stated for a    *)
(* caller that holds no key twice.                                         *)
(***************************************************************************)
C7_ScanComplete ==
    (ScanEnded /\ Distinct(stored))
    => (/\ Len(ScanKeys) = Len(stored)
        /\ \A i \in 1..Len(stored) :
              \E j \in 1..Len(ScanKeys) : ScanKeys[j] = stored[i][1])

(***************************************************************************)
(* C8.  A scan returns the keys page by page and, within a page, in the    *)
(* insertion order of the pairs that survive: with all keys on page 0, the *)
(* keys come back in the order they were stored.                           *)
(***************************************************************************)
C8_ScanOrder ==
    (ScanEnded /\ pagf.len <= 1) => ScanKeys = KeysOf(stored)

(***************************************************************************)
(* C9.  FirstKey is idempotent: whatever calls preceded it, it returns the *)
(* first key of the lowest-numbered non-empty page of the page file, or    *)
(* absent when no page holds a pair -- the same key for as long as no      *)
(* Store or Delete changes the file.                                       *)
(***************************************************************************)
NonEmptyPages == {b \in 0..(pagf.len - 1) : getN(PagBlock(pagf, b)) > 0}

FirstOfFile ==
    IF NonEmptyPages = {}
    THEN Nullitem
    ELSE GetNKey(PagBlock(pagf, CHOOSE b \in NonEmptyPages :
                                  \A c \in NonEmptyPages : b <= c), 1)

C9_FirstKeyIdempotent ==
    IsOpen => (FirstKey(W).err = ErrNone /\ FirstKey(W).res = FirstOfFile)

\* FirstKey has returned a key that lies beyond page 0, which is empty
C9_Witness ==
    /\ IsOpen
    /\ last.op = "FirstKey"
    /\ last.res # Nullitem
    /\ pagf.len > 1
    /\ getN(PagBlock(pagf, 0)) = 0

(***************************************************************************)
(* C10.  On a handle opened read-only, Store and Delete with valid         *)
(* arguments return ErrDBMRDOnly and leave both files and the handle's     *)
(* cache and cursors unchanged, while Fetch still succeeds.                *)
(***************************************************************************)
C10_ReadOnly ==
    [][handle = "ro"
       => (/\ \A key \in Keys : Fetch(W, key).err = ErrNone
           /\ last'.op \in {"Store", "Delete"}
              => (/\ last'.err = ErrDBMRDOnly
                  /\ ~last'.res
                  /\ W' = W))]_vars

\* a Store on a read-only handle of a store that holds pairs has been refused
C10_Witness ==
    /\ handle = "ro"
    /\ last.op = "Store"
    /\ last.err = ErrDBMRDOnly
    /\ pagf.len > 0
    /\ \E key \in Keys : Fetch(W, key).res # Nullitem

(***************************************************************************)
(* C11.  Fetch, Delete and Store each return ErrInvalidArgument, without   *)
(* touching the files or the cache, whenever the key is empty: a nil key   *)
(* and a key of length zero alike.                                         *)
(***************************************************************************)
C11_EmptyKeyRejected ==
    [][(last'.op \in {"Fetch", "Delete", "Store"} /\ Size(last'.key) = 0)
       => (last'.err = ErrInvalidArgument /\ W' = W)]_vars

(***************************************************************************)
(* C12.  As claimed: Store returns ErrInvalidArgument whenever             *)
(* |key| + |val| > PAIRMAX, whatever the store state and the handle mode,  *)
(* changing neither the files nor the cached page; a pair of exactly       *)
(* PAIRMAX bytes is not rejected as too large.                             *)
(***************************************************************************)
C12_TooBigAnyMode ==
    [][last'.op = "Store"
       => (/\ Size(last'.key) + Size(last'.val) > PAIRMAX
              => (last'.err = ErrInvalidArgument /\ W' = W)
           /\ (last'.key # Nullitem /\ Size(last'.key) + Size(last'.val) = PAIRMAX)
              => last'.err # ErrInvalidArgument)]_vars

(***************************************************************************)
(* C12, amended.  On a handle that is not read-only, Store returns         *)
(* ErrInvalidArgument whenever |key| + |val| > PAIRMAX, whatever the store *)
(* state; on a read-only handle it returns ErrDBMRDOnly, unless the key is *)
(* nil.  Either way it changes neither the files nor the cached page, and  *)
(* a pair of exactly PAIRMAX bytes is not rejected as too large.           *)
(***************************************************************************)
C12_TooBigRejected ==
    [][last'.op = "Store"
       => (/\ Size(last'.key) + Size(last'.val) > PAIRMAX
              => (/\ last'.err = IF rdonly /\ last'.key # Nullitem
                                  THEN ErrDBMRDOnly
                                  ELSE ErrInvalidArgument
                  /\ W' = W)
           /\ (last'.key # Nullitem /\ Size(last'.key) + Size(last'.val) = PAIRMAX)
              => last'.err # ErrInvalidArgument)]_vars

\* Store has refused a pair of PAIRMAX + 1 bytes on a read-write handle of a
\* store that already holds a pair of exactly PAIRMAX bytes
C12_Witness ==
    /\ handle = "rw"
    /\ last.op = "Store"
    /\ last.key # Nullitem
    /\ Size(last.key) + Size(last.val) = PAIRMAX + 1
    /\ last.err = ErrInvalidArgument
    /\ \E i \in 1..Len(stored) : Size(stored[i][1]) + Size(stored[i][2]) = PAIRMAX

(***************************************************************************)
(* C13.  After every Store or Delete that returns without error, the       *)
(* in-memory page satisfies ChkPage.                                       *)
(***************************************************************************)
C13_PageInvariant ==
    [][(last'.op \in {"Store", "Delete"} /\ last'.err = ErrNone)
       => ChkPage(pag')]_vars

(***************************************************************************)
(* C14.  The handle's view agrees with the files: after any sequence of    *)
(* successful Store and Delete calls, a handle opened anew on the two      *)
(* files returns for every key what this handle's Fetch returns.           *)
(***************************************************************************)
C14_Persistent ==
    IsOpen
    => \A key \in Keys \cup OverKeys :
        /\ Fetch(Prep(pagf, dirf, rdonly), key).err = Fetch(W, key).err
        /\ Fetch(Prep(pagf, dirf, rdonly), key).res = Fetch(W, key).res

(***************************************************************************)
(* C15.  Hash(bytes) is the polynomial h <- 65599*h + b folded over the    *)
(* bytes from h = 0 modulo 2^64; the bits are those of the signed result.  *)
(* The empty input hashes to 0 and the one byte 97 ("a") to 97.  The       *)
(* polynomial is computed here on eight limbs of 8 bits as                 *)
(* 63*h + 2^16*h + b; two values computed outside the model are given.     *)
(***************************************************************************)
RECURSIVE RefLimbs(_, _, _, _)
RefLimbs(h, i, carry, acc) ==
    IF i > 8
    THEN acc
    ELSE LET t == 63 * h[i] + (IF i > 2 THEN h[i - 2] ELSE 0) + carry
         IN  RefLimbs(h, i + 1, t \div 256, Append(acc, t % 256))

RECURSIVE RefHash(_, _)
RefHash(data, n) ==
    IF n = 0
    THEN <<0, 0, 0, 0, 0, 0, 0, 0>>
    ELSE RefLimbs(RefHash(data, n - 1), 1, data[n], << >>)

\* the eight bytes of a hash, least significant first
ToBytes(h) ==
    [i \in 1..8 |-> IF i % 2 = 1 THEN h[(i + 1) \div 2] % 256 ELSE h[i \div 2] \div 256]

C15_HashPolynomial ==
    last.op = "Hash"
    => (/\ ToBytes(last.res) = RefHash(last.key, Len(last.key))
        /\ last.key = << >> => last.res = <<0, 0, 0, 0>>
        /\ last.key = <<97>> => last.res = <<97, 0, 0, 0>>
        /\ last.key = <<97, 97, 97, 97, 97, 97>>
           => last.res = <<59584, 62618, 18510, 11585>>
        /\ last.key = <<255, 255, 255, 255, 255, 255>>
           => last.res = <<8000, 38274, 29069, 37212>>)

\* Hash has wrapped around 2^64 and returned a value whose sign bit is set
C15_Witness ==
    /\ last.op = "Hash"
    /\ Len(last.key) = MaxHashLen
    /\ last.key[1] = 255
    /\ last.res[4] >= 32768

(***************************************************************************)
(* C16.  Close calls Close on the directory file and on the page file,     *)
(* also when the first close fails, and returns the directory file's close *)
(* error if there is one, otherwise the page file's, otherwise none.       *)
(***************************************************************************)
C16_CloseBoth ==
    [][last'.op = "Close"
       => (/\ last'.res = <<"dirf", "pagf">>
           /\ last'.key # ErrNone => last'.err = ErrCloseDir
           /\ (last'.key = ErrNone /\ last'.val # ErrNone) => last'.err = ErrClosePag
           /\ (last'.key = ErrNone /\ last'.val = ErrNone) => last'.err = ErrNone)]_vars

\* a Close whose close of the directory file failed has gone on to close the
\* page file, which failed too
C16_Witness ==
    /\ handle = "closed"
    /\ last.op = "Close"
    /\ last.key = ErrIO
    /\ last.val = ErrIO
    /\ last.err = ErrCloseDir
    /\ pagf.len > 0

(***************************************************************************)
(* C17.  Each time getNext runs out of keys on the current page it         *)
(* advances blkptr by one, sets pagbno = blkptr and reads page blkptr: so  *)
(* while a scan returns keys, blkptr and pagbno name the page in the       *)
(* buffer, whose keys are being returned.                                  *)
(***************************************************************************)
C17_ScanPageNumber ==
    (IsOpen /\ scan # << >> /\ scan[Len(scan)] # Nullitem)
    => (/\ pagbno = blkptr
        /\ pag = PagBlock(pagf, blkptr))

(***************************************************************************)
(* C18.  Cache coherence: between calls, whenever pagbno = b >= 0 the page *)
(* buffer holds page b of the page file, after any interleaving of Store,  *)
(* Delete, Fetch, FirstKey and NextKey.                                    *)
(***************************************************************************)
C18_CacheCoherent ==
    (IsOpen /\ pagbno >= 0) => pag = PagBlock(pagf, pagbno)

(***************************************************************************)
(* C19.  When a page read from the page file fails ChkPage, the call       *)
(* returns ErrInvalidPage and the cache is as before the call: the page    *)
(* buffer and pagbno are unchanged.                                        *)
(***************************************************************************)
C19_InvalidPageKeepsCache ==
    [][last'.err = ErrInvalidPage => (pag' = pag /\ pagbno' = pagbno)]_vars

(***************************************************************************)
(* The writes of a Store that splits.  Every pass of makeRoom's loop ends  *)
(* its writes with the directory block that setDBit writes; a pass after   *)
(* the first is preceded by the write of the current page that ended the   *)
(* pass before it.                                                         *)
(***************************************************************************)
\* the handle as Store hands it to makeRoom
AtMakeRoom(w, key, flags) ==
    LET g == getPage(w, exHash(key))
    IN  IF flags = StoreREPLACE
        THEN [g.w EXCEPT !.pag = DelPair(@, key).pag]
        ELSE g.w

\* the writes of the directory file in log
DirWrites(log) == {j \in 1..Len(log) : log[j].f = "dir"}

\* the last write of the pass before the one that ends at j; 0 in the first
PassStart(log, j) ==
    IF \E i \in DirWrites(log) : i < j
    THEN 1 + CHOOSE i \in DirWrites(log) :
                 i < j /\ \A i2 \in DirWrites(log) : i2 < j => i2 <= i
    ELSE 0

\* the number of the pass that ends at j
PassNo(log, j) == Cardinality({i \in DirWrites(log) : i <= j})

\* the page writes of the pass that ends at j, before its directory write
PassPagWrites(log, j) ==
    {i \in 1..Len(log) : PassStart(log, j) < i /\ i < j /\ log[i].f = "pag"}

\* pagbno when the pass that ends at j began
PassPagbno(log, j, w) ==
    IF PassStart(log, j) = 0 THEN w.pagbno ELSE log[PassStart(log, j)].b

\* hmask + 1 when the pass that ends at j began
PassSbit(log, j, w) == (w.hmask + 1) * Pow2(PassNo(log, j) - 1)

(***************************************************************************)
(* C20.  As claimed: in every pass of makeRoom, on both branches, the old  *)
(* page -- the page at the pagbno of before the split, without the pairs   *)
(* that moved -- is written to the page file before setDBit writes the     *)
(* directory bit of that split.                                            *)
(***************************************************************************)
C20_OldPageBeforeDirBit ==
    [][(last'.op = "Store" /\ last'.err = ErrNone /\ last'.res)
       => \A w \in {AtMakeRoom(W, last'.key, last'.flags)},
             log \in {Store(W, last'.key, last'.val, last'.flags).w.wlog} :
              \A j \in DirWrites(log) :
                \E i \in PassPagWrites(log, j) :
                    /\ log[i].b = PassPagbno(log, j, w)
                    /\ PassNo(log, j) = 1
                       => log[i].data = SplPage(w.pag, w.hmask + 1).old]_vars

(***************************************************************************)
(* C20, amended.  In every pass of makeRoom, before setDBit writes the     *)
(* directory bit of the split, the half of the split that the incoming     *)
(* pair does not go to is written to the page file, and nothing else: the  *)
(* old page, at the pagbno of before the split and without the pairs that  *)
(* moved, when the pair goes to the new page; the new page when the pair   *)
(* stays.  The half the pair goes to is written after the directory bit.   *)
(***************************************************************************)
C20_OtherHalfBeforeDirBit ==
    [][(last'.op = "Store" /\ last'.err = ErrNone /\ last'.res)
       => \A w \in {AtMakeRoom(W, last'.key, last'.flags)},
             hash \in {exHash(last'.key)},
             log \in {Store(W, last'.key, last'.val, last'.flags).w.wlog} :
              \A j \in DirWrites(log) :
                LET sbit == PassSbit(log, j, w)
                    old == PassPagbno(log, j, w)
                    newp == HashAnd(hash, sbit - 1) + sbit
                    moves == HashBit(hash, sbit)
                IN  /\ Cardinality(PassPagWrites(log, j)) = 1
                    /\ \A i \in PassPagWrites(log, j) :
                        /\ log[i].b = IF moves THEN old ELSE newp
                        /\ PassNo(log, j) = 1
                           => log[i].data = IF moves
                                            THEN SplPage(w.pag, sbit).old
                                            ELSE SplPage(w.pag, sbit).new
                    /\ \E i \in (j + 1)..Len(log) :
                        /\ log[i].f = "pag"
                        /\ log[i].b = IF moves THEN newp ELSE old]_vars

\* a Store has split its page twice: the three keys went to the new page of
\* the first split, and of the second split the incoming key <<5>> stayed
C20_Witness ==
    /\ IsOpen
    /\ last.op = "Store"
    /\ last.err = ErrNone
    /\ last.res
    /\ last.key = <<5>>
    /\ pagbno = 1
    /\ pagf.len = 4
    /\ Len(stored) = 3

(***************************************************************************)
(* A Store that goes as far as PutPair: getPage has succeeded and the      *)
(* call has not returned at a duplicate.                                   *)
(***************************************************************************)
ReachesPutPair(w, key, flags) ==
    \A g \in {getPage(w, exHash(key))} :
        /\ g.err = ErrNone
        /\ ~(flags = StoreSEEDUPS /\ DupPair(g.w.pag, key))

\* the handle on which Store calls PutPair
AtPutPair(w, key, val, flags) ==
    IF FitPair(AtMakeRoom(w, key, flags).pag, Size(key) + Size(val))
    THEN AtMakeRoom(w, key, flags)
    ELSE makeRoom(AtMakeRoom(w, key, flags), exHash(key), Size(key) + Size(val))

(***************************************************************************)
(* C21.  When its splits keep failing to make room for the pair, makeRoom  *)
(* makes SPLTMAX passes, each a SplPage followed by setDBit, before it     *)
(* gives up: never fewer.                                                  *)
(***************************************************************************)
C21_SplitsBeforeGivingUp ==
    [][(/\ last'.op = "Store"
        /\ last'.err = ErrNone
        /\ last'.res
        /\ ReachesPutPair(W, last'.key, last'.flags))
       => \A w \in {AtMakeRoom(W, last'.key, last'.flags)},
             w2 \in {AtPutPair(W, last'.key, last'.val, last'.flags)},
             need \in {Size(last'.key) + Size(last'.val)} :
              (~FitPair(w.pag, need) /\ ~FitPair(w2.pag, need))
              => Cardinality(DirWrites(w2.wlog)) = SPLTMAX]_vars

(***************************************************************************)
(* C22.  PutPair is only ever executed on a page for which FitPair of the  *)
(* pair holds at that moment: in Store, also after makeRoom has returned,  *)
(* and in SplPage.                                                         *)
(***************************************************************************)
\* every PutPair of SplPage's loop is given a page that the pair fits
RECURSIVE SplFitLoop(_, _, _, _, _, _, _)
SplFitLoop(cur, old, new, sbit, i, n, off) ==
    IF n <= 0
    THEN TRUE
    ELSE \A key \in {Slice(cur, getIno(cur, i), off)},
            val \in {Slice(cur, getIno(cur, i + 1), getIno(cur, i))} :
            IF HashBit(exHash(key), sbit)
            THEN /\ FitPair(new, Len(key) + Len(val))
                 /\ SplFitLoop(cur, old, PutPair(new, key, val), sbit, i + 2, n - 2,
                               getIno(cur, i + 1))
            ELSE /\ FitPair(old, Len(key) + Len(val))
                 /\ SplFitLoop(cur, PutPair(old, key, val), new, sbit, i + 2, n - 2,
                               getIno(cur, i + 1))

C22_PutPairFits ==
    [][(/\ last'.op = "Store"
        /\ last'.err = ErrNone
        /\ last'.res
        /\ ReachesPutPair(W, last'.key, last'.flags))
       => \A w \in {AtMakeRoom(W, last'.key, last'.flags)},
             w2 \in {AtPutPair(W, last'.key, last'.val, last'.flags)},
             need \in {Size(last'.key) + Size(last'.val)} :
              /\ FitPair(w2.pag, need)
              /\ ~FitPair(w.pag, need)
                 => SplFitLoop(w.pag, ZeroPage, ZeroPage, w.hmask + 1, 1,
                               getIno(w.pag, 0), PBLKSIZ)]_vars

(***************************************************************************)
(* C23.  SplPage partitions the page: every pair of the page ends up in    *)
(* exactly one of the two pages, in the new page iff exHash(key)&sbit != 0 *)
(* and in the old page otherwise, with the bytes of key and value          *)
(* unchanged and the order kept, and both pages satisfy ChkPage.           *)
(***************************************************************************)
\* the pairs of a page, in slot order
PagePairs(p) ==
    [j \in 1..(getN(p) \div 2) |->
        <<Slice(p, getIno(p, 2 * j - 1), PrevEnd(p, 2 * j - 1)),
          Slice(p, getIno(p, 2 * j), getIno(p, 2 * j - 1))>>]

\* the pairs of st whose keys have bit sbit of their hash set (toNew), or
\* clear
RECURSIVE PairsOfHalf(_, _, _)
PairsOfHalf(st, sbit, toNew) ==
    IF st = << >>
    THEN << >>
    ELSE IF HashBit(exHash(Head(st)[1]), sbit) = toNew
         THEN <<Head(st)>> \o PairsOfHalf(Tail(st), sbit, toNew)
         ELSE PairsOfHalf(Tail(st), sbit, toNew)

SplitBits == {1, 2, 4}

C23_SplPagePartitions ==
    (IsOpen /\ ChkPage(pag))
    => \A sbit \in SplitBits :
        \A sp \in {SplPage(pag, sbit)}, st \in {PagePairs(pag)} :
            /\ PagePairs(sp.new) = PairsOfHalf(st, sbit, TRUE)
            /\ PagePairs(sp.old) = PairsOfHalf(st, sbit, FALSE)
            /\ ChkPage(sp.new)
            /\ ChkPage(sp.old)

\* the page in the buffer holds three pairs, of which SplPage moves two, that
\* are not next to each other, to the new page
C23_Witness ==
    /\ IsOpen
    /\ ChkPage(pag)
    /\ Len(PagePairs(pag)) = 3
    /\ Len(PagePairs(SplPage(pag, 1).new)) = 2
    /\ HashBit(exHash(PagePairs(pag)[1][1]), 1)
    /\ ~HashBit(exHash(PagePairs(pag)[2][1]), 1)

(***************************************************************************)
(* C24.  Placement: between calls, every pair in page b of the page file   *)
(* is on the page its hash selects: the walk of the directory for          *)
(* exHash(key) ends at the page number b = hash & hmask.                   *)
(***************************************************************************)
\* the page number at which getPage looks for hash
PageOf(w, hash) == HashAnd(hash, masks(TrieWalk(w, hash, 0, 0).hbit))

C24_Placement ==
    IsOpen
    => \A b \in DOMAIN pagf.blk :
        ChkPage(pagf.blk[b])
        => \A j \in 1..(getN(pagf.blk[b]) \div 2) :
            PageOf(W, exHash(GetNKey(pagf.blk[b], j))) = b

(***************************************************************************)
(* C25.  maxbno always equals the size of the directory file in bits; in   *)
(* particular, once setDBit(d) has returned, d < maxbno, so that the next  *)
(* walk of the directory sees every split that has been recorded.          *)
(***************************************************************************)
\* the bits that are set in a directory file, by their index
DirBits(f) ==
    UNION {{b * DBLKSIZ * BITSIZ + pos : pos \in f.blk[b]} : b \in DOMAIN f.blk}

C25_MaxbnoIsDirSize ==
    IsOpen
    => (/\ maxbno = offDir(dirf.len) * BITSIZ
        /\ \A d \in DirBits(dirf) : d < maxbno)

(***************************************************************************)
(* C26.  When getDBit or setDBit loads a directory block that lies beyond  *)
(* the end of the directory file, the cached block is all zeros; hence a   *)
(* bit of the directory file is 1 only if setDBit was called for that bit  *)
(* index.                                                                  *)
(***************************************************************************)
\* the bit indices that the call whose writes are log has given to setDBit
DBitsSet(log) == {log[j].dbit : j \in DirWrites(log)}

\* the length in blocks of the directory file before write j of log, the
\* file having had len blocks before the call
DirLenBefore(log, j, len) ==
    CHOOSE m \in {len} \cup {log[i].b + 1 : i \in {k \in DirWrites(log) : k < j}} :
        \A i \in {k \in DirWrites(log) : k < j} : log[i].b + 1 <= m /\ len <= m

C26_DirBlockPastEndIsZero ==
    [][(last'.op = "Store" /\ last'.err = ErrNone /\ last'.res)
       => \A log \in {Store(W, last'.key, last'.val, last'.flags).w.wlog} :
            /\ DirBits(dirf') \subseteq DirBits(dirf) \cup DBitsSet(log)
            /\ \A j \in DirWrites(log) :
                log[j].b >= DirLenBefore(log, j, dirf.len)
                => log[j].data = {DirPos(log[j].dbit)}]_vars

(***************************************************************************)
(* C27.  Once a scan has returned absent, a further NextKey with no other  *)
(* call in between returns absent as well: no key is returned after the    *)
(* end has been reported.                                                  *)
(***************************************************************************)
C27_AbsentStays ==
    [][(ScanEnded /\ last'.op = "NextKey")
       => (last'.err = ErrNone /\ last'.res = Nullitem)]_vars

(***************************************************************************)
(* C28.  Fetch does not disturb a scan: while a scan is returning keys,    *)
(* NextKey returns after a Fetch of any key what it returns without the    *)
(* Fetch.                                                                  *)
(***************************************************************************)
C28_FetchKeepsScan ==
    (IsOpen /\ scan # << >> /\ scan[Len(scan)] # Nullitem)
    => \A key \in Keys :
        \A f \in {Fetch(W, key)}, n \in {NextKey(W)} :
            f.err = ErrNone
            => (/\ NextKey(f.w).err = n.err
                /\ NextKey(f.w).res = n.res)
====
